---- MODULE Spec2Model ----
(***************************************************************************)
(* Model of the PWA client utilities of Sistem-Informasi-Geografis:        *)
(*   - the install prompt handler (src/unnamed/part_000 is the later       *)
(*     variant, src/src/scripts/utils/install-prompt.js the earlier one);  *)
(*   - the push notification helper                                        *)
(*     (src/src/scripts/utils/notification-helper.js).                     *)
(* JavaScript runs one task at a time: every action below is one task (an  *)
(* event handler, a timer callback, or the part of an async function       *)
(* between two suspension points).                                         *)
(***************************************************************************)
EXTENDS Integers, Sequences, FiniteSets, TLC

(***************************************************************************)
(* Bounds of the model.                                                    *)
(***************************************************************************)
MaxInits == 2      \* calls of initInstallPrompt that register listeners
MaxHandles == 1    \* handles alive (held by the module or awaiting a choice)
MaxPrompts == 2    \* prompt() invocations counted per handle
MaxNodes == 2      \* banner nodes alive (in the document or held by a callback)
MaxTimers == 2     \* pending setTimeout / requestAnimationFrame callbacks
MaxPeriods == 1    \* the clock runs over 0..MaxPeriods dismissal periods

(***************************************************************************)
(* Program constants.                                                      *)
(***************************************************************************)
INSTALL_DISMISSED_KEY == "installPromptDismissed"
Day == 24 * 60 * 60 * 1000
\* INSTALL_DISMISSED_DURATION: 3 days in the later variant, 7 in the earlier
INSTALL_DISMISSED_DURATION(v) == IF v = "late" THEN 3 * Day ELSE 7 * Day
ShowDelay == 100        \* setTimeout(..., 100) of showInstallBanner (later)
HideDelay == 300        \* setTimeout(..., 300) of hideInstallBanner
\* the fallback timer of initInstallPrompt: 2000 ms (later), 3000 ms (earlier)
FallbackDelay(v) == IF v = "late" THEN 2000 ELSE 3000

Variants == {"early", "late"}
Null == 0               \* deferredPrompt = null; handles are 1..MaxHandles
Handles == 1..MaxHandles

VARIABLES
  variant,        \* which of the two source files is loaded
  platform,       \* what the user agent answers (see Devices)
  now,            \* Date.now(), in ms since the start of the model's epoch
  localStorage,   \* function: the keys present |-> their string value
  deferredPrompt, \* the module-scoped handle (Null or a handle)
  listeners,      \* listener pairs registered by initInstallPrompt
  prevented,      \* handles whose preventDefault() was called
  promptCalls,    \* handle |-> number of prompt() invocations so far
  awaiting,       \* handle |-> triggerInstall calls suspended on userChoice
  doc,            \* the banner nodes in document.body, in document order
  timers,         \* pending setTimeout callbacks, in firing order
  frames,         \* pending requestAnimationFrame callbacks, in order
  probe,          \* observer: the last isInstallDismissed() call and result
  installedSeen,  \* observer: an 'appinstalled' listener has run
  bailed,         \* observer: an initInstallPrompt call returned early
  notification,   \* the Notification API: is it there, and its permission
  pushManager,    \* the platform's current push subscription (NoSub or one)
  calls           \* the calls of the push helper's async functions

installVars == <<variant, platform, now, localStorage, deferredPrompt,
                 listeners, prevented, promptCalls, awaiting,
                 doc, timers, frames, probe, installedSeen, bailed>>

pushVars == <<notification, pushManager, calls>>

vars == <<installVars, pushVars>>

(***************************************************************************)
(* Strings of decimal digits: Date.now().toString() and parseInt(s, 10).   *)
(***************************************************************************)
RECURSIVE toString(_)
toString(n) == IF n < 10 THEN <<n>> ELSE Append(toString(n \div 10), n % 10)

RECURSIVE parseInt(_)
parseInt(str) ==
  IF Len(str) = 0 THEN 0
  ELSE 10 * parseInt(SubSeq(str, 1, Len(str) - 1)) + str[Len(str)]

(***************************************************************************)
(* The platform: what the user-agent tests and media queries answer.       *)
(***************************************************************************)
Device(ios, msStream, safari, mobileUA, narrow) ==
  [uaIOS |-> ios, msStream |-> msStream, uaSafari |-> safari,
   uaMobile |-> mobileUA, narrow |-> narrow]

Devices ==
  { Device(TRUE, FALSE, TRUE, TRUE, TRUE),      \* iPhone, Safari
    Device(FALSE, FALSE, FALSE, TRUE, TRUE),    \* Android, Chrome
    Device(FALSE, FALSE, FALSE, FALSE, FALSE),  \* desktop Chrome
    Device(FALSE, FALSE, TRUE, FALSE, FALSE),   \* desktop Safari
    Device(FALSE, FALSE, FALSE, FALSE, TRUE) }  \* desktop Chrome, narrow window

Platforms ==
  { [device |-> d, standalone |-> sa] : d \in Devices, sa \in BOOLEAN }

isAppInstalled(s) == s.platform.standalone

isMobileDevice(s) ==
  IF s.variant = "late"
  THEN s.platform.device.uaMobile \/ s.platform.device.narrow
  ELSE s.platform.device.uaMobile

isIOS(s) == s.platform.device.uaIOS /\ ~s.platform.device.msStream

isSafari(s) == s.platform.device.uaSafari

(***************************************************************************)
(* The handlers are operators on a record s of the page's state; s.skip    *)
(* is how many pending timers of a longer delay expire before the next     *)
(* timer the running task schedules (the time that passed since they were  *)
(* set is the environment's).                                              *)
(***************************************************************************)
St(k) ==
  [variant |-> variant, platform |-> platform, now |-> now,
   localStorage |-> localStorage, deferredPrompt |-> deferredPrompt,
   listeners |-> listeners,
   prevented |-> prevented, promptCalls |-> promptCalls,
   awaiting |-> awaiting, doc |-> doc, timers |-> timers, frames |-> frames,
   probe |-> probe, installedSeen |-> installedSeen, bailed |-> bailed,
   skip |-> k]

Commit(s) ==
  /\ variant' = s.variant
  /\ platform' = s.platform
  /\ now' = s.now
  /\ localStorage' = s.localStorage
  /\ deferredPrompt' = s.deferredPrompt
  /\ listeners' = s.listeners
  /\ prevented' = s.prevented
  /\ promptCalls' = s.promptCalls
  /\ awaiting' = s.awaiting
  /\ doc' = s.doc
  /\ timers' = s.timers
  /\ frames' = s.frames
  /\ probe' = s.probe
  /\ installedSeen' = s.installedSeen
  /\ bailed' = s.bailed

(***************************************************************************)
(* setTimeout: pending callbacks fire in the order of their deadlines, and *)
(* callbacks of one deadline in the order they were set. A callback set    *)
(* now with delay d is due after every pending callback of a delay <= d;   *)
(* whether it is due before a pending callback of a longer delay depends   *)
(* on the time that has passed, which s.skip chooses.                      *)
(***************************************************************************)
Delay(v, t) ==
  CASE t.kind = "show" -> ShowDelay
    [] t.kind = "hide" -> HideDelay
    [] t.kind = "fallback" -> FallbackDelay(v)

Max(S) == CHOOSE x \in S : \A y \in S : y <= x

Min(a, b) == IF a <= b THEN a ELSE b

EarliestSlot(s, d) ==
  1 + Max({0} \cup {i \in 1..Len(s.timers) : Delay(s.variant, s.timers[i]) <= d})

InsertAt(q, p, t) == SubSeq(q, 1, p - 1) \o <<t>> \o SubSeq(q, p, Len(q))

setTimeout(s, t) ==
  LET p == Min(EarliestSlot(s, Delay(s.variant, t)) + s.skip, Len(s.timers) + 1)
  IN [s EXCEPT !.timers = InsertAt(@, p, t), !.skip = 0]

requestAnimationFrame(s, t) == [s EXCEPT !.frames = Append(@, t)]

(***************************************************************************)
(* The document: the banner nodes appended to document.body.               *)
(***************************************************************************)
getElementById(s) == IF Len(s.doc) = 0 THEN Null ELSE s.doc[1].nid

RemoveNode(d, n) == SelectSeq(d, LAMBDA x : x.nid # n)

SetVisible(d, n, b) ==
  [i \in 1..Len(d) |-> IF d[i].nid = n THEN [d[i] EXCEPT !.visible = b] ELSE d[i]]

(***************************************************************************)
(* isInstallDismissed: the pair <<returned value, state after>>.           *)
(***************************************************************************)
getItem(s) ==
  IF INSTALL_DISMISSED_KEY \in DOMAIN s.localStorage
  THEN s.localStorage[INSTALL_DISMISSED_KEY] ELSE <<>>

removeItem(s) == [s EXCEPT !.localStorage = [k \in {} |-> <<>>]]

setItem(s, str) ==
  [s EXCEPT !.localStorage = [k \in {INSTALL_DISMISSED_KEY} |-> str]]

\* mutant: a record is expired from the last millisecond of its period on
Expired_Inclusive(s, dismissedAt) ==
  s.now - dismissedAt >= INSTALL_DISMISSED_DURATION(s.variant)

Expired(s, dismissedAt) ==
  s.now - dismissedAt > INSTALL_DISMISSED_DURATION(s.variant)

isInstallDismissed(s) ==
  LET dismissedTime == getItem(s) IN
  IF dismissedTime = <<>> THEN <<FALSE, s>>
  ELSE IF Expired(s, parseInt(dismissedTime)) THEN <<FALSE, removeItem(s)>>
  ELSE <<TRUE, s>>

(***************************************************************************)
(* hideInstallBanner, showInstallBanner, dismissInstallPrompt.             *)
(***************************************************************************)
hideInstallBanner(s) ==
  LET banner == getElementById(s) IN
  IF banner # Null
  THEN setTimeout([s EXCEPT !.doc = SetVisible(@, banner, FALSE)],
                  [kind |-> "hide", nid |-> banner])
  ELSE s

ManualVariant(s) ==
  IF s.variant = "late"
  THEN isIOS(s) \/ (isSafari(s) /\ s.deferredPrompt = Null)
  ELSE isIOS(s)

\* A node's identity is the least name that no node in the document and no
\* pending callback holds: a name that nothing holds any more is free again.
NodesHeld(s) ==
  {s.doc[i].nid : i \in 1..Len(s.doc)} \cup
  {s.timers[i].nid : i \in 1..Len(s.timers)} \cup
  {s.frames[i].nid : i \in 1..Len(s.frames)}

createElement(s) ==
  IF (1..MaxNodes) \subseteq NodesHeld(s) THEN MaxNodes + 1
  ELSE CHOOSE n \in 1..MaxNodes :
         n \notin NodesHeld(s) /\ \A m \in 1..(n - 1) : m \in NodesHeld(s)

AppendBanner(s) ==
  LET banner == [nid |-> createElement(s),
                 kind |-> IF ManualVariant(s) THEN "manual" ELSE "install",
                 visible |-> FALSE]
      t == [kind |-> "show", nid |-> banner.nid]
      s1 == [s EXCEPT !.doc = Append(@, banner)]
  IN IF s.variant = "late" THEN setTimeout(s1, t)
     ELSE requestAnimationFrame(s1, t)

\* mutant: the check for an existing banner is missing
showInstallBanner_Unguarded(s) == AppendBanner(s)

showInstallBanner(s) ==
  IF getElementById(s) # Null THEN s ELSE AppendBanner(s)

dismissInstallPrompt(s) == hideInstallBanner(setItem(s, toString(s.now)))

(***************************************************************************)
(* Handles. A 'beforeinstallprompt' event is a fresh object; it is alive   *)
(* while the module holds it or a triggerInstall call awaits its           *)
(* userChoice. Its name is the least name no live handle bears, and what   *)
(* is recorded about a handle is dropped when nothing holds it any more.   *)
(* The userChoice of a handle resolves after its first prompt(), and the   *)
(* call resumed then clears deferredPrompt: a resolved handle is not held. *)
(***************************************************************************)
Alive(s) == {h \in Handles : s.deferredPrompt = h \/ s.awaiting[h] > 0}

Release(s) ==
  [s EXCEPT !.prevented = @ \cap Alive(s),
            !.promptCalls = [h \in Handles |-> IF h \in Alive(s) THEN @[h] ELSE 0]]

\* the handle the module holds is dropped when a listener stores the new one
Awaited(s) == {h \in Handles : s.awaiting[h] > 0}

NewHandle(s) ==
  IF Awaited(s) = Handles THEN MaxHandles + 1
  ELSE CHOOSE h \in Handles :
         h \notin Awaited(s) /\ \A g \in 1..(h - 1) : g \in Awaited(s)

(***************************************************************************)
(* triggerInstall. Its first part runs up to `await userChoice`; `throws`  *)
(* is the platform's answer to a second prompt() on one handle, which      *)
(* either throws at once or lets the call go on to the await. Resume is    *)
(* the part after the await.                                               *)
(***************************************************************************)
Resume(s) == hideInstallBanner([s EXCEPT !.deferredPrompt = Null])

\* console.log, and in the later variant alert(...), then return: the page's
\* state is as it was
NoHandle(s) == s

Prompt(s, throws) ==
  LET h == s.deferredPrompt
      s1 == [s EXCEPT !.promptCalls[h] = @ + 1]
  IN IF s.promptCalls[h] > 0 /\ throws THEN s1
     ELSE [s1 EXCEPT !.awaiting[h] = @ + 1]

triggerInstall(s, throws) ==
  IF s.deferredPrompt = Null THEN NoHandle(s) ELSE Prompt(s, throws)

RECURSIVE ResumeAll(_, _)
ResumeAll(s, n) == IF n = 0 THEN s ELSE ResumeAll(Resume(s), n - 1)

(***************************************************************************)
(* initInstallPrompt and the callbacks it registers.                       *)
(***************************************************************************)
FallbackWanted(s) == IF s.variant = "late" THEN isMobileDevice(s) ELSE isIOS(s)

Register(s) ==
  LET s1 == [s EXCEPT !.listeners = @ + 1]
  IN IF FallbackWanted(s) THEN setTimeout(s1, [kind |-> "fallback", nid |-> Null])
     ELSE s1

\* console.log, return: nothing is registered
Bail(s) == [s EXCEPT !.bailed = TRUE]

\* mutant: the check of the dismissal record is missing
initInstallPrompt_IgnoresDismissal(s) ==
  IF isAppInstalled(s) THEN Bail(s)
  ELSE IF s.variant = "early" /\ ~isMobileDevice(s) THEN Bail(s)
  ELSE Register(s)

initInstallPrompt(s) ==
  IF isAppInstalled(s) THEN Bail(s)
  ELSE IF s.variant = "early" /\ ~isMobileDevice(s) THEN Bail(s)
  ELSE LET r == isInstallDismissed(s) IN
       IF r[1] THEN Bail(r[2]) ELSE Register(r[2])

\* mutant: e.preventDefault() is missing
OnBeforeInstallPrompt_NoPreventDefault(s, e) ==
  showInstallBanner([s EXCEPT !.deferredPrompt = e])

OnBeforeInstallPrompt(s, e) ==
  showInstallBanner([s EXCEPT !.prevented = @ \cup {e}, !.deferredPrompt = e])

OnAppInstalled(s) ==
  [hideInstallBanner(s) EXCEPT !.deferredPrompt = Null, !.installedSeen = TRUE]

FallbackCallback(s) ==
  IF isAppInstalled(s) THEN s
  ELSE LET r == isInstallDismissed(s) IN
       IF r[1] THEN r[2]
       ELSE IF s.variant = "late" /\ getElementById(r[2]) # Null THEN r[2]
       ELSE showInstallBanner(r[2])

ShowCallback(s, n) == [s EXCEPT !.doc = SetVisible(@, n, TRUE)]

HideCallback(s, n) == [s EXCEPT !.doc = RemoveNode(@, n)]

\* the event is dispatched to each registered listener in turn
RECURSIVE DispatchBeforeInstallPrompt(_, _, _)
DispatchBeforeInstallPrompt(s, e, n) ==
  IF n = 0 THEN s
  ELSE DispatchBeforeInstallPrompt(OnBeforeInstallPrompt(s, e), e, n - 1)

RECURSIVE DispatchAppInstalled(_, _)
DispatchAppInstalled(s, n) ==
  IF n = 0 THEN s ELSE DispatchAppInstalled(OnAppInstalled(s), n - 1)

(***************************************************************************)
(* The clock.                                                              *)
(***************************************************************************)
\* Date.now() takes the page's load time 0 and, for each dismissal period
\* that has passed since, the last millisecond of it and the first after it.
ClockPoints(v) ==
  {0} \cup { k * INSTALL_DISMISSED_DURATION(v) + o : k \in 1..MaxPeriods, o \in {0, 1} }

(***************************************************************************)
(* Initial state: a freshly loaded page. The dismissal record, if any, was *)
(* written by an earlier page at or before the present time.               *)
(***************************************************************************)
NoProbe ==
  [called |-> FALSE, before |-> <<>>, at |-> 0, ret |-> FALSE, after |-> <<>>]

InitInstall ==
  /\ variant \in Variants
  /\ platform \in Platforms
  /\ now = 0
  /\ localStorage \in
       {[k \in {} |-> <<>>], [k \in {INSTALL_DISMISSED_KEY} |-> toString(now)]}
  /\ deferredPrompt = Null
  /\ listeners = 0
  /\ prevented = {}
  /\ promptCalls = [h \in Handles |-> 0]
  /\ awaiting = [h \in Handles |-> 0]
  /\ doc = <<>>
  /\ timers = <<>>
  /\ frames = <<>>
  /\ probe = NoProbe
  /\ installedSeen = FALSE
  /\ bailed = FALSE

\* a task's result is taken only within the bounds of the model
Within(s) ==
  /\ Len(s.timers) <= MaxTimers
  /\ Len(s.frames) <= MaxTimers
  /\ \A i \in 1..Len(s.doc) : s.doc[i].nid <= MaxNodes
  /\ s.listeners <= MaxInits
  /\ \A h \in Handles : s.promptCalls[h] <= MaxPrompts

Task(s) == Within(s) /\ Commit(Release(s)) /\ UNCHANGED pushVars

\* the environment's choices: how many pending timers a new one overtakes,
\* and whether a repeated prompt() on the held handle throws
Skips == 0..Len(timers)

Throws ==
  IF deferredPrompt # Null /\ promptCalls[deferredPrompt] > 0 THEN BOOLEAN
  ELSE {FALSE}

(***************************************************************************)
(* What the page does by itself: the application's call of                 *)
(* initInstallPrompt, platform events, clicks on the banner's buttons,     *)
(* timers and animation frames.                                            *)
(***************************************************************************)
InitInstallPrompt == \E k \in Skips : Task(initInstallPrompt(St(k)))

\* 'beforeinstallprompt' is an event of Chromium browsers: iOS and Safari do
\* not support it
SupportsBeforeInstallPrompt(s) == ~isIOS(s) /\ ~isSafari(s)

BeforeInstallPrompt ==
  /\ SupportsBeforeInstallPrompt(St(0))
  /\ NewHandle(St(0)) \in Handles
  /\ \E k \in Skips :
       Task(DispatchBeforeInstallPrompt(St(k), NewHandle(St(0)), listeners))

AppInstalled ==
  \E k \in Skips, sa \in {platform.standalone, TRUE} :
    Task(DispatchAppInstalled(
           [St(k) EXCEPT !.platform.standalone = sa], listeners))

ClickInstall ==
  /\ \E i \in 1..Len(doc) : doc[i].kind = "install"
  /\ \E k \in Skips, throws \in Throws : Task(triggerInstall(St(k), throws))

ClickClose ==
  /\ Len(doc) > 0
  /\ \E k \in Skips : Task(dismissInstallPrompt(St(k)))

UserChoice ==
  \E h \in Handles, k \in 0..MaxTimers :
    /\ awaiting[h] > 0
    /\ Task(ResumeAll([St(k) EXCEPT !.awaiting[h] = 0], awaiting[h]))

FireTimer ==
  /\ Len(timers) > 0
  /\ LET t == Head(timers)
         s == [St(0) EXCEPT !.timers = Tail(@)]
     IN \E k \in Skips :
          Task(CASE t.kind = "show" -> ShowCallback(s, t.nid)
                 [] t.kind = "hide" -> HideCallback(s, t.nid)
                 [] t.kind = "fallback" -> FallbackCallback([s EXCEPT !.skip = k]))

FireFrame ==
  /\ Len(frames) > 0
  /\ Task(ShowCallback([St(0) EXCEPT !.frames = Tail(@)], Head(frames).nid))

Tick ==
  \E t \in ClockPoints(variant) :
    /\ t > now
    /\ Task([St(0) EXCEPT !.now = t])

(***************************************************************************)
(* Direct calls of the module's exported functions by other code.          *)
(***************************************************************************)
CallShowInstallBanner == \E k \in Skips : Task(showInstallBanner(St(k)))

CallHideInstallBanner == \E k \in Skips : Task(hideInstallBanner(St(k)))

CallDismissInstallPrompt ==
  \E k \in Skips : Task(dismissInstallPrompt(St(k)))

CallTriggerInstall ==
  \E k \in Skips, throws \in Throws : Task(triggerInstall(St(k), throws))

\* the observer records what the call found, when, and what it returned
CallIsInstallDismissed ==
  LET r == isInstallDismissed(St(0)) IN
  Task([r[2] EXCEPT !.probe = [called |-> TRUE, before |-> getItem(St(0)),
                               at |-> now, ret |-> r[1],
                               after |-> getItem(r[2])]])

PageNext ==
  \/ InitInstallPrompt
  \/ BeforeInstallPrompt
  \/ AppInstalled
  \/ ClickInstall
  \/ ClickClose
  \/ UserChoice
  \/ FireTimer
  \/ FireFrame
  \/ Tick

Next ==
  \/ PageNext
  \/ CallShowInstallBanner
  \/ CallHideInstallBanner
  \/ CallDismissInstallPrompt
  \/ CallTriggerInstall

\* the dismissal record alone: written, read, expired
DismissalNext ==
  \/ CallIsInstallDismissed
  \/ CallDismissInstallPrompt
  \/ Tick


(***************************************************************************)
(* The push notification helper. A call of one of its async functions is   *)
(* a record: the function, the await it is suspended at (pc), its local    *)
(* pushSubscription, how its promise settled, and the trace of what it     *)
(* did: the platform and remote calls it made, its alerts and its console  *)
(* logs, in order. Each action below runs one call from the settling of    *)
(* the promise it awaits to its next await; the way the awaited promise    *)
(* settles is the environment's.                                           *)
(***************************************************************************)
MaxCalls == 2      \* calls of the push helper in flight at a time
MaxSubs == 2       \* push subscriptions alive (current or held by a call)

NoSub == 0              \* getSubscription() resolves null; let pushSubscription
Calls == 1..MaxCalls

Idle == [op |-> "none", pc |-> "idle", sub |-> NoSub, result |-> "none",
         trace |-> <<>>]

InitPush ==
  /\ notification \in
       [available : BOOLEAN, permission : {"default", "granted", "denied"}]
  /\ pushManager \in {NoSub, 1}
  /\ calls = [c \in Calls |-> Idle]

isNotificationAvailable == notification.available

isNotificationGranted == notification.permission = "granted"

isNotificationDenied == notification.permission = "denied"

\* what a call has done so far
Did(me, evs) == [me EXCEPT !.trace = @ \o evs]

Await(me, evs, pc) == [Did(me, evs) EXCEPT !.pc = pc]

Settle(me, evs, result) == [Did(me, evs) EXCEPT !.pc = "done", !.result = result]

Set(c, me) == calls' = [calls EXCEPT ![c] = me] /\ UNCHANGED installVars

At(c, op, pc) == calls[c].op = op /\ calls[c].pc = pc

Free(c) == calls[c].pc \in {"idle", "done"}

\* A subscription object's name is the least one that is neither the current
\* subscription nor held by a call in flight.
SubsHeld == {pushManager} \cup {calls[c].sub : c \in Calls}

NewSub ==
  IF (1..MaxSubs) \subseteq SubsHeld THEN MaxSubs + 1
  ELSE CHOOSE n \in 1..MaxSubs :
         n \notin SubsHeld /\ \A m \in 1..(n - 1) : m \in SubsHeld

\* pushManager.subscribe resolves the current subscription, or a new one
Subscribed == IF pushManager # NoSub THEN pushManager ELSE NewSub

(***************************************************************************)
(* What the environment answers is part of a call's trace too: how each    *)
(* awaited promise settled ("ready:ok", "response:notok", ...), that the   *)
(* Notification API is absent, that the permission was denied before.      *)
(***************************************************************************)
Settled(what, ok) == IF ok THEN what \o ":ok" ELSE what \o ":reject"

(***************************************************************************)
(* requestNotificationPermission(silent), up to its await: the trace it    *)
(* leaves and what it returns ("ask" when it goes on to prompt the user);  *)
(* and its part after the prompt was answered with a status.               *)
(***************************************************************************)
requestNotificationPermission(silent) ==
  IF ~isNotificationAvailable
  THEN [evs |-> <<"notification:absent", "log">>, ret |-> "false"]
  ELSE IF isNotificationGranted THEN [evs |-> <<>>, ret |-> "true"]
  ELSE IF isNotificationDenied
  THEN [evs |-> <<"permission:denied">> \o (IF silent THEN <<>> ELSE <<"log">>),
        ret |-> "false"]
  ELSE [evs |-> <<"call:requestPermission">>, ret |-> "ask"]

PermissionAnswered(silent, status) ==
  CASE status = "denied" ->
         [evs |-> IF silent THEN <<>> ELSE <<"alert:denied">>, ret |-> "false"]
    [] status = "default" ->
         [evs |-> IF silent THEN <<>> ELSE <<"alert:ignored">>, ret |-> "false"]
    [] OTHER -> [evs |-> <<>>, ret |-> "true"]

\* the user's answer to the prompt is the permission from then on
Answer(status) == notification' = [notification EXCEPT !.permission = status]

\* pushSubscription.unsubscribe() resolves true (the subscription is gone),
\* resolves false (nothing was changed) or rejects
Unsubscribed(sub, outcome) ==
  /\ outcome = "true" => pushManager = sub
  /\ pushManager' = IF outcome = "true" THEN NoSub ELSE pushManager

(***************************************************************************)
(* autoSubscribe                                                           *)
(***************************************************************************)
\* mutant: an existing subscription does not stop the call
AutoAlreadySubscribed_Resubscribes(me) ==
  Await(Did(me, <<"getSubscription:sub">>), <<"log", "call:ready">>, "ready2")

AutoAlreadySubscribed(me) ==
  Settle(Did(me, <<"getSubscription:sub">>), <<"log">>, "true")

\* mutant: the catch block logs and rethrows
AutoCatch_Rethrows(me) == Settle(me, <<"log">>, "rejected")

AutoCatch(me) == Settle(me, <<"log">>, "false")

\* after the permission was granted: console.log, await serviceWorker.ready
AutoGranted(me, evs) == Await(me, evs \o <<"log", "call:ready">>, "ready2")

AutoNotGranted(me, evs) == Settle(me, evs \o <<"log">>, "false")

AutoStart(c) ==
  /\ Free(c)
  /\ LET me == [Idle EXCEPT !.op = "autoSubscribe"] IN
     IF ~isNotificationAvailable
     THEN Set(c, Settle(me, <<"notification:absent", "log">>, "false"))
     ELSE Set(c, Await(me, <<"call:ready">>, "ready1"))
  /\ UNCHANGED <<notification, pushManager>>

AutoReady1(c) ==
  /\ At(c, "autoSubscribe", "ready1")
  /\ \E ok \in BOOLEAN :
       LET me == Did(calls[c], <<Settled("ready", ok)>>) IN
       IF ok THEN Set(c, Await(me, <<"call:getSubscription">>, "getSubscription"))
       ELSE Set(c, AutoCatch(me))
  /\ UNCHANGED <<notification, pushManager>>

AutoNotSubscribed(me) ==
  LET r == requestNotificationPermission(TRUE)
      me1 == Did(me, <<"getSubscription:null">>)
  IN IF r.ret = "ask" THEN Await(me1, r.evs, "permission")
     ELSE IF r.ret = "true" THEN AutoGranted(me1, r.evs)
     ELSE AutoNotGranted(me1, r.evs)

AutoGetSubscription(c) ==
  /\ At(c, "autoSubscribe", "getSubscription")
  /\ \E ok \in BOOLEAN :
       IF ~ok THEN Set(c, AutoCatch(Did(calls[c], <<"getSubscription:reject">>)))
       ELSE IF pushManager # NoSub THEN Set(c, AutoAlreadySubscribed(calls[c]))
       ELSE Set(c, AutoNotSubscribed(calls[c]))
  /\ UNCHANGED <<notification, pushManager>>

AutoPermission(c) ==
  /\ At(c, "autoSubscribe", "permission")
  /\ \/ /\ Set(c, AutoCatch(Did(calls[c], <<"permission:reject">>)))
        /\ UNCHANGED notification
     \/ \E status \in {"granted", "denied", "default"} :
          LET r == PermissionAnswered(TRUE, status)
              me == Did(calls[c], <<"permission:" \o status>>)
          IN /\ Answer(status)
             /\ IF r.ret = "true" THEN Set(c, AutoGranted(me, r.evs))
                ELSE Set(c, AutoNotGranted(me, r.evs))
  /\ UNCHANGED pushManager

AutoReady2(c) ==
  /\ At(c, "autoSubscribe", "ready2")
  /\ \E ok \in BOOLEAN :
       LET me == Did(calls[c], <<Settled("ready", ok)>>) IN
       IF ok THEN Set(c, Await(me, <<"call:pushManager.subscribe">>, "subscribe"))
       ELSE Set(c, AutoCatch(me))
  /\ UNCHANGED <<notification, pushManager>>

AutoSubscribed(c) ==
  /\ At(c, "autoSubscribe", "subscribe")
  /\ \/ /\ Set(c, AutoCatch(Did(calls[c], <<"subscribe:reject">>)))
        /\ UNCHANGED pushManager
     \/ /\ Subscribed <= MaxSubs
        /\ pushManager' = Subscribed
        /\ Set(c, [Await(calls[c],
                         <<"subscribe:ok", "call:subscribePushNotification">>,
                         "remote")
                     EXCEPT !.sub = Subscribed])
  /\ UNCHANGED notification

AutoRemote(c) ==
  /\ At(c, "autoSubscribe", "remote")
  /\ \E response \in {"ok", "notok", "throw"} :
       LET me == Did(calls[c], <<"response:" \o response>>) IN
       CASE response = "throw" -> Set(c, AutoCatch(me))
         [] response = "notok" -> Set(c, Await(me, <<"log", "call:unsubscribe">>, "undo"))
         [] OTHER -> Set(c, Settle(me, <<"log">>, "true"))
  /\ UNCHANGED <<notification, pushManager>>

AutoUndo(c) ==
  /\ At(c, "autoSubscribe", "undo")
  /\ \E outcome \in {"true", "false", "throw"} :
       LET me == Did(calls[c], <<"unsubscribe:" \o outcome>>) IN
       /\ Unsubscribed(calls[c].sub, outcome)
       /\ IF outcome = "throw" THEN Set(c, AutoCatch(me))
          ELSE Set(c, Settle(me, <<>>, "false"))
  /\ UNCHANGED notification

(***************************************************************************)
(* subscribe                                                               *)
(***************************************************************************)
\* after the permission was granted: isCurrentPushSubscriptionAvailable()
SubGranted(me, evs) == Await(me, evs \o <<"call:ready">>, "ready1")

\* the catch block: console.error, alert, then pushSubscription.unsubscribe(),
\* which throws a TypeError when pushSubscription was never assigned
SubCatch(me) ==
  IF me.sub = NoSub THEN Settle(me, <<"log", "alert:failure">>, "rejected")
  ELSE Await(me, <<"log", "alert:failure", "call:unsubscribe">>, "undoCatch")

\* mutant: the undo is started before the alert
SubNotOk_UndoFirst(me) ==
  Await(me, <<"log", "call:unsubscribe", "alert:failure">>, "undo")

\* the `if (!response.ok)` branch: console.error, alert, then the undo
SubNotOk(me) == Await(me, <<"log", "alert:failure", "call:unsubscribe">>, "undo")

SubStart(c) ==
  /\ Free(c)
  /\ LET me == [Idle EXCEPT !.op = "subscribe"]
         r == requestNotificationPermission(FALSE)
     IN IF r.ret = "ask" THEN Set(c, Await(me, r.evs, "permission"))
        ELSE IF r.ret = "true" THEN Set(c, SubGranted(me, r.evs))
        ELSE Set(c, Settle(me, r.evs, "resolved"))
  /\ UNCHANGED <<notification, pushManager>>

SubPermission(c) ==
  /\ At(c, "subscribe", "permission")
  /\ \/ /\ Set(c, Settle(calls[c], <<"permission:reject">>, "rejected"))
        /\ UNCHANGED notification
     \/ \E status \in {"granted", "denied", "default"} :
          LET r == PermissionAnswered(FALSE, status)
              me == Did(calls[c], <<"permission:" \o status>>)
          IN /\ Answer(status)
             /\ IF r.ret = "true" THEN Set(c, SubGranted(me, r.evs))
                ELSE Set(c, Settle(me, r.evs, "resolved"))
  /\ UNCHANGED pushManager

SubReady1(c) ==
  /\ At(c, "subscribe", "ready1")
  /\ \E ok \in BOOLEAN :
       LET me == Did(calls[c], <<Settled("ready", ok)>>) IN
       IF ok THEN Set(c, Await(me, <<"call:getSubscription">>, "getSubscription"))
       ELSE Set(c, Settle(me, <<>>, "rejected"))
  /\ UNCHANGED <<notification, pushManager>>

SubGetSubscription(c) ==
  /\ At(c, "subscribe", "getSubscription")
  /\ \E ok \in BOOLEAN :
       IF ~ok THEN Set(c, Settle(calls[c], <<"getSubscription:reject">>, "rejected"))
       ELSE IF pushManager # NoSub
       THEN Set(c, Settle(calls[c], <<"getSubscription:sub", "alert:already">>,
                          "resolved"))
       ELSE Set(c, Await(calls[c], <<"getSubscription:null", "log", "call:ready">>,
                         "ready2"))
  /\ UNCHANGED <<notification, pushManager>>

SubReady2(c) ==
  /\ At(c, "subscribe", "ready2")
  /\ \E ok \in BOOLEAN :
       LET me == Did(calls[c], <<Settled("ready", ok)>>) IN
       IF ok THEN Set(c, Await(me, <<"call:pushManager.subscribe">>, "subscribe"))
       ELSE Set(c, SubCatch(me))
  /\ UNCHANGED <<notification, pushManager>>

SubSubscribed(c) ==
  /\ At(c, "subscribe", "subscribe")
  /\ \/ /\ Set(c, SubCatch(Did(calls[c], <<"subscribe:reject">>)))
        /\ UNCHANGED pushManager
     \/ /\ Subscribed <= MaxSubs
        /\ pushManager' = Subscribed
        /\ Set(c, [Await(calls[c],
                         <<"subscribe:ok", "call:subscribePushNotification">>,
                         "remote")
                     EXCEPT !.sub = Subscribed])
  /\ UNCHANGED notification

SubRemote(c) ==
  /\ At(c, "subscribe", "remote")
  /\ \E response \in {"ok", "notok", "throw"} :
       LET me == Did(calls[c], <<"response:" \o response>>) IN
       CASE response = "throw" -> Set(c, SubCatch(me))
         [] response = "notok" -> Set(c, SubNotOk(me))
         [] OTHER -> Set(c, Settle(me, <<"alert:success">>, "resolved"))
  /\ UNCHANGED <<notification, pushManager>>

\* the unsubscribe() of the `if (!response.ok)` branch, inside the try block
SubUndo(c) ==
  /\ At(c, "subscribe", "undo")
  /\ \E outcome \in {"true", "false", "throw"} :
       LET me == Did(calls[c], <<"unsubscribe:" \o outcome>>) IN
       /\ Unsubscribed(calls[c].sub, outcome)
       /\ IF outcome = "throw" THEN Set(c, SubCatch(me))
          ELSE Set(c, Settle(me, <<>>, "resolved"))
  /\ UNCHANGED notification

\* the unsubscribe() of the catch block
SubUndoCatch(c) ==
  /\ At(c, "subscribe", "undoCatch")
  /\ \E outcome \in {"true", "false", "throw"} :
       LET me == Did(calls[c], <<"unsubscribe:" \o outcome>>) IN
       /\ Unsubscribed(calls[c].sub, outcome)
       /\ IF outcome = "throw" THEN Set(c, Settle(me, <<>>, "rejected"))
          ELSE Set(c, Settle(me, <<>>, "resolved"))
  /\ UNCHANGED notification

(***************************************************************************)
(* unsubscribe                                                             *)
(***************************************************************************)
UnsubCatch(me) == Settle(me, <<"alert:failure", "log">>, "resolved")

UnsubStart(c) ==
  /\ Free(c)
  /\ Set(c, Await([Idle EXCEPT !.op = "unsubscribe"], <<"call:ready">>, "ready1"))
  /\ UNCHANGED <<notification, pushManager>>

UnsubReady(c) ==
  /\ At(c, "unsubscribe", "ready1")
  /\ \E ok \in BOOLEAN :
       LET me == Did(calls[c], <<Settled("ready", ok)>>) IN
       IF ok THEN Set(c, Await(me, <<"call:getSubscription">>, "getSubscription"))
       ELSE Set(c, UnsubCatch(me))
  /\ UNCHANGED <<notification, pushManager>>

\* mutant: the null check is missing
UnsubNotSubscribed_Unchecked(me) ==
  Await(me, <<"getSubscription:null", "call:unsubscribePushNotification">>, "remote")

UnsubNotSubscribed(me) ==
  Settle(me, <<"getSubscription:null", "alert:notSubscribed">>, "resolved")

UnsubFound(me, sub) ==
  [Await(me, <<"getSubscription:sub", "call:unsubscribePushNotification">>, "remote")
     EXCEPT !.sub = sub]

UnsubGetSubscription(c) ==
  /\ At(c, "unsubscribe", "getSubscription")
  /\ \E ok \in BOOLEAN :
       IF ~ok THEN Set(c, UnsubCatch(Did(calls[c], <<"getSubscription:reject">>)))
       ELSE IF pushManager = NoSub THEN Set(c, UnsubNotSubscribed(calls[c]))
       ELSE Set(c, UnsubFound(calls[c], pushManager))
  /\ UNCHANGED <<notification, pushManager>>

\* mutant: the `return` after the failure alert is missing
UnsubRemoteFailed_FallsThrough(me) ==
  Await(me, <<"alert:failure", "log", "call:unsubscribe">>, "unsubscribe")

UnsubRemoteFailed(me) == Settle(me, <<"alert:failure", "log">>, "resolved")

UnsubRemote(c) ==
  /\ At(c, "unsubscribe", "remote")
  /\ \E response \in {"ok", "notok", "throw"} :
       LET me == Did(calls[c], <<"response:" \o response>>) IN
       CASE response = "throw" -> Set(c, UnsubCatch(me))
         [] response = "notok" -> Set(c, UnsubRemoteFailed(me))
         [] OTHER -> Set(c, Await(me, <<"call:unsubscribe">>, "unsubscribe"))
  /\ UNCHANGED <<notification, pushManager>>

\* mutant: the compensating re-subscribe is missing
UnsubPlatformFailed_NoCompensation(me) == Settle(me, <<"alert:failure">>, "resolved")

\* the `if (!unsubscribed)` branch: alert, then re-register with the remote API
UnsubPlatformFailed(me) ==
  Await(me, <<"alert:failure", "call:subscribePushNotification">>, "resubscribe")

UnsubUnsubscribed(c) ==
  /\ At(c, "unsubscribe", "unsubscribe")
  /\ \E outcome \in {"true", "false", "throw"} :
       LET me == Did(calls[c], <<"unsubscribe:" \o outcome>>) IN
       /\ Unsubscribed(calls[c].sub, outcome)
       /\ CASE outcome = "throw" -> Set(c, UnsubCatch(me))
            [] outcome = "false" -> Set(c, UnsubPlatformFailed(me))
            [] OTHER -> Set(c, Settle(me, <<"alert:success">>, "resolved"))
  /\ UNCHANGED notification

\* the compensating subscribePushNotification: its response is not looked at
UnsubResubscribed(c) ==
  /\ At(c, "unsubscribe", "resubscribe")
  /\ \E response \in {"ok", "notok", "throw"} :
       LET me == Did(calls[c], <<"resubscribe:" \o response>>) IN
       IF response = "throw" THEN Set(c, UnsubCatch(me))
       ELSE Set(c, Settle(me, <<>>, "resolved"))
  /\ UNCHANGED <<notification, pushManager>>

\* the platform drops the current subscription (it expired, or the user
\* cleared the site's data)
SubscriptionLost ==
  /\ pushManager # NoSub
  /\ pushManager' = NoSub
  /\ UNCHANGED <<notification, calls, installVars>>

PushNext ==
  \/ \E c \in Calls : AutoStart(c)
  \/ \E c \in Calls : AutoReady1(c)
  \/ \E c \in Calls : AutoGetSubscription(c)
  \/ \E c \in Calls : AutoPermission(c)
  \/ \E c \in Calls : AutoReady2(c)
  \/ \E c \in Calls : AutoSubscribed(c)
  \/ \E c \in Calls : AutoRemote(c)
  \/ \E c \in Calls : AutoUndo(c)
  \/ \E c \in Calls : SubStart(c)
  \/ \E c \in Calls : SubPermission(c)
  \/ \E c \in Calls : SubReady1(c)
  \/ \E c \in Calls : SubGetSubscription(c)
  \/ \E c \in Calls : SubReady2(c)
  \/ \E c \in Calls : SubSubscribed(c)
  \/ \E c \in Calls : SubRemote(c)
  \/ \E c \in Calls : SubUndo(c)
  \/ \E c \in Calls : SubUndoCatch(c)
  \/ \E c \in Calls : UnsubStart(c)
  \/ \E c \in Calls : UnsubReady(c)
  \/ \E c \in Calls : UnsubGetSubscription(c)
  \/ \E c \in Calls : UnsubRemote(c)
  \/ \E c \in Calls : UnsubUnsubscribed(c)
  \/ \E c \in Calls : UnsubResubscribed(c)
  \/ SubscriptionLost

(***************************************************************************)
(* Specifications. The two components share no state: each is checked      *)
(* with the other at rest.                                                 *)
(***************************************************************************)
InstallAtRest ==
  /\ InitInstall
  /\ variant = "late"
  /\ platform = [device |-> Device(FALSE, FALSE, FALSE, TRUE, TRUE),
                 standalone |-> FALSE]
  /\ localStorage = [k \in {} |-> <<>>]

PushAtRest ==
  /\ InitPush
  /\ notification = [available |-> TRUE, permission |-> "default"]
  /\ pushManager = NoSub

Init == InitInstall /\ PushAtRest

Spec == Init /\ [][Next]_vars

SpecPage == Init /\ [][PageNext]_vars

SpecDismissal == Init /\ [][DismissalNext]_vars

PushInit == InstallAtRest /\ InitPush

SpecPush == PushInit /\ [][PushNext]_vars

(***************************************************************************)
(* Properties of the push notification helper (checked under SpecPush).    *)
(***************************************************************************)
AlertEvents ==
  {"alert:denied", "alert:ignored", "alert:already", "alert:failure",
   "alert:success", "alert:notSubscribed"}

FailureEvents ==
  {"notification:absent", "permission:denied", "permission:default",
   "permission:reject", "ready:reject", "getSubscription:reject",
   "subscribe:reject", "response:notok", "response:throw", "unsubscribe:throw"}

Has(tr, e) == \E i \in 1..Len(tr) : tr[i] = e

Count(tr, e) == Cardinality({i \in 1..Len(tr) : tr[i] = e})

HasAny(tr, E) == \E i \in 1..Len(tr) : tr[i] \in E

Done(c) == calls[c].pc = "done"

\* C4: autoSubscribe() never alerts and never rejects; whenever any of the
\* platform or remote calls it makes has failed (or the Notification API is
\* absent, or the permission is denied or dismissed), it has written at
\* least one log and resolves to false.
C4_AutoSubscribeSilent ==
  \A c \in Calls :
    calls[c].op = "autoSubscribe" =>
      /\ ~HasAny(calls[c].trace, AlertEvents)
      /\ calls[c].result # "rejected"
      /\ Done(c) => calls[c].result \in {"true", "false"}
      /\ (Done(c) /\ HasAny(calls[c].trace, FailureEvents)) =>
           (calls[c].result = "false" /\ Count(calls[c].trace, "log") >= 1)

\* an autoSubscribe() whose rollback unsubscribe() threw has resolved false
C4_Witness ==
  \E c \in Calls :
    /\ calls[c].op = "autoSubscribe"
    /\ Done(c)
    /\ Has(calls[c].trace, "unsubscribe:throw")
    /\ calls[c].result = "false"

\* C5: the promise returned by subscribe() or unsubscribe() never rejects.
C5_NoRejection ==
  \A c \in Calls :
    calls[c].op \in {"subscribe", "unsubscribe"} => calls[c].result # "rejected"

\* C6: a subscribe() whose subscribePushNotification resolved {ok: false}
\* invokes the platform unsubscribe() exactly once and alerts the failure
\* message exactly once, and never the success message, whatever the outcome
\* of that unsubscribe().
C6_UndoOnceAlertOnce ==
  \A c \in Calls :
    (calls[c].op = "subscribe" /\ Done(c) /\ Has(calls[c].trace, "response:notok")) =>
      /\ Count(calls[c].trace, "call:unsubscribe") = 1
      /\ Count(calls[c].trace, "alert:failure") = 1
      /\ Count(calls[c].trace, "alert:success") = 0

\* C7: an unsubscribe() that found no current subscription alerts 'not
\* subscribed' exactly once and calls neither the remote API nor the
\* platform's unsubscribe().
C7_NotSubscribedNoCalls ==
  \A c \in Calls :
    (calls[c].op = "unsubscribe" /\ Has(calls[c].trace, "getSubscription:null")) =>
      /\ Count(calls[c].trace, "alert:notSubscribed") = 1
      /\ ~Has(calls[c].trace, "call:unsubscribePushNotification")
      /\ ~Has(calls[c].trace, "call:subscribePushNotification")
      /\ ~Has(calls[c].trace, "call:unsubscribe")

C7_Witness ==
  \E c \in Calls :
    /\ calls[c].op = "unsubscribe"
    /\ Done(c)
    /\ Has(calls[c].trace, "getSubscription:null")
    /\ Has(calls[c].trace, "alert:notSubscribed")

\* C8: an unsubscribe() that found a subscription and whose remote
\* unsubscribePushNotification failed (ok: false, or thrown) never invokes
\* the platform's unsubscribe(), makes no re-subscribe call, alerts the
\* failure message exactly once and the success message never.
C8_RemoteFailureLeavesPlatform ==
  \A c \in Calls :
    (/\ calls[c].op = "unsubscribe"
     /\ Has(calls[c].trace, "getSubscription:sub")
     /\ (Has(calls[c].trace, "response:notok") \/ Has(calls[c].trace, "response:throw")))
    => /\ ~Has(calls[c].trace, "call:unsubscribe")
       /\ ~Has(calls[c].trace, "call:subscribePushNotification")
       /\ Count(calls[c].trace, "alert:failure") = 1
       /\ Count(calls[c].trace, "alert:success") = 0
       /\ Done(c)

C8_Witness ==
  \E c \in Calls :
    /\ calls[c].op = "unsubscribe"
    /\ Done(c)
    /\ Has(calls[c].trace, "response:notok")
    /\ Has(calls[c].trace, "alert:failure")

First(tr, e) == CHOOSE i \in 1..Len(tr) : tr[i] = e /\ \A j \in 1..(i - 1) : tr[j] # e

C15_CompensateOnPlatformFailure ==
  \A c \in Calls :
    calls[c].op = "unsubscribe" =>
      LET tr == calls[c].trace IN
      /\ Has(tr, "unsubscribe:false") =>
           /\ Has(tr, "response:ok")
           /\ Count(tr, "call:subscribePushNotification") = 1
           /\ First(tr, "unsubscribe:false") < First(tr, "call:subscribePushNotification")
           /\ calls[c].sub # NoSub
           /\ Has(tr, "alert:failure")
           /\ ~Has(tr, "alert:success")
      /\ Has(tr, "alert:success") =>
           (Has(tr, "response:ok") /\ Has(tr, "unsubscribe:true"))
      /\ (Has(tr, "response:ok") /\ Has(tr, "unsubscribe:true")) =>
           (~Has(tr, "call:subscribePushNotification") /\ Has(tr, "alert:success"))

\* an unsubscribe() whose platform unsubscribe() resolved false and whose
\* compensating call has returned
C15_Witness ==
  \E c \in Calls :
    /\ calls[c].op = "unsubscribe"
    /\ Done(c)
    /\ Has(calls[c].trace, "unsubscribe:false")
    /\ Has(calls[c].trace, "resubscribe:ok")

\* C17: a subscribe() or autoSubscribe() that observed an existing
\* subscription never calls pushManager.subscribe nor the remote subscribe
\* API: autoSubscribe resolves true, subscribe alerts 'already subscribed'
\* once. (That two overlapping calls can both observe no subscription and
\* both call pushManager.subscribe is the reachability of C17_Witness.)
C17_AlreadySubscribedShortcut ==
  \A c \in Calls :
    (calls[c].op \in {"subscribe", "autoSubscribe"}
       /\ Has(calls[c].trace, "getSubscription:sub")) =>
      /\ ~Has(calls[c].trace, "call:pushManager.subscribe")
      /\ ~Has(calls[c].trace, "call:subscribePushNotification")
      /\ Done(c)
      /\ calls[c].op = "autoSubscribe" => calls[c].result = "true"
      /\ calls[c].op = "subscribe" =>
           (Count(calls[c].trace, "alert:already") = 1 /\ calls[c].result = "resolved")

\* two calls in flight at once, each of which observed that no subscription
\* exists and each of which has called pushManager.subscribe
C17_Witness ==
  \E c, d \in Calls :
    /\ c # d
    /\ calls[c].op \in {"subscribe", "autoSubscribe"}
    /\ calls[d].op \in {"subscribe", "autoSubscribe"}
    /\ calls[c].pc = "subscribe" /\ calls[d].pc = "subscribe"
    /\ Has(calls[c].trace, "getSubscription:null")
    /\ Has(calls[d].trace, "getSubscription:null")
    /\ Has(calls[c].trace, "call:pushManager.subscribe")
    /\ Has(calls[d].trace, "call:pushManager.subscribe")

\* C18: an autoSubscribe() that resolved false after it had created a
\* platform subscription has unsubscribed that subscription.
C18_FailureUndoesSubscription ==
  \A c \in Calls :
    (/\ calls[c].op = "autoSubscribe"
     /\ Done(c)
     /\ calls[c].result = "false"
     /\ Has(calls[c].trace, "subscribe:ok"))
    => Has(calls[c].trace, "unsubscribe:true")

(***************************************************************************)
(* Properties of the install prompt handler.                               *)
(***************************************************************************)
\* C1: the document never holds more than one banner node, whatever the
\* page and its callers do (Spec), and two successive showInstallBanner()
\* calls leave exactly one.
C1_AtMostOneBanner ==
  /\ Len(doc) <= 1
  /\ Len(showInstallBanner(showInstallBanner(St(0))).doc) = 1

\* one banner, after a 'beforeinstallprompt' was dispatched to the listeners
\* of two initInstallPrompt() calls, each of which called showInstallBanner()
C1_Witness == Len(doc) = 1 /\ listeners = 2 /\ deferredPrompt # Null

\* C2: the native prompt() of a handle is invoked at most once, also when the
\* Install button is clicked again while the first triggerInstall is still
\* awaiting userChoice.
C2_PromptedAtMostOnce == \A h \in Handles : promptCalls[h] <= 1

\* C3: isInstallDismissed() returns true iff a record T is stored and
\* now - T <= TTL (3 days later variant, 7 days earlier); when it returns
\* false for a stored record the record is gone afterwards; with no record
\* it returns false and leaves the storage as it was (SpecDismissal).
C3_DismissedIffWithinTTL ==
  probe.called =>
    /\ probe.before = <<>> => (~probe.ret /\ probe.after = <<>>)
    /\ probe.before # <<>> =>
         \E T \in ClockPoints(variant) :
           /\ probe.before = toString(T)
           /\ probe.ret <=>
                (probe.at - T <= (IF variant = "late" THEN 259200000 ELSE 604800000))
           /\ ~probe.ret => probe.after = <<>>
           /\ probe.ret => probe.after = probe.before

\* a call that found an expired record, returned false and deleted it
C3_Witness ==
  probe.called /\ ~probe.ret /\ probe.before # <<>> /\ probe.after = <<>>

\* C10: once an 'appinstalled' listener has run, the handle is null and no
\* banner is visible, and no banner node is created for the rest of the
\* page's lifetime (SpecPage).
C10_InstalledTerminal ==
  [][/\ (~installedSeen /\ installedSeen') =>
          (deferredPrompt' = Null /\ \A i \in 1..Len(doc') : ~doc'[i].visible)
     /\ installedSeen => Len(doc') <= Len(doc)]_vars

\* the dismissal record is stored and has not passed its TTL
Suppressed ==
  /\ getItem(St(0)) # <<>>
  /\ now - parseInt(getItem(St(0))) <= INSTALL_DISMISSED_DURATION(variant)

Fallbacks(q) == Cardinality({i \in 1..Len(q) : q[i].kind = "fallback"})

\* hideInstallBanner was called on the node and its removal is pending
Hiding(n) == \E i \in 1..Len(timers) : timers[i].kind = "hide" /\ timers[i].nid = n

\* C11: while the dismissal record is stored and unexpired (in a page's
\* lifetime it is written by dismissInstallPrompt only, and a page loaded
\* with it registers nothing), no banner node is created: not by a
\* 'beforeinstallprompt' event nor by the fallback timer (SpecPage).
C11_DismissedTerminal ==
  [][Suppressed => Len(doc') <= Len(doc)]_vars

\* when initInstallPrompt runs, it returns before registering anything
Ineligible ==
  \/ isAppInstalled(St(0))
  \/ variant = "early" /\ ~isMobileDevice(St(0))
  \/ Suppressed

\* C12: a step taken while the app is installed, the dismissal record is
\* unexpired or (earlier variant) the device is not mobile registers no
\* listener and no fallback timer, the initInstallPrompt call that first
\* returns early changes nothing else, and as long as no call has registered
\* a listener the handle is null, no banner is in the document and no
\* callback is pending, whatever events the platform fires (SpecPage).
C12_IneligibleInitDoesNothing ==
  [][/\ Ineligible =>
          (listeners' = listeners /\ Fallbacks(timers') <= Fallbacks(timers))
     /\ (~bailed /\ bailed') =>
          /\ Ineligible
          /\ UNCHANGED <<deferredPrompt, listeners, prevented, doc, timers, frames>>
     /\ listeners' = 0 =>
          (deferredPrompt' = Null /\ doc' = <<>> /\ timers' = <<>> /\ frames' = <<>>)
    ]_vars

\* an initInstallPrompt call has returned early on a page whose dismissal
\* record is unexpired, and nothing is registered
C12_Witness == bailed /\ Suppressed /\ listeners = 0 /\ deferredPrompt = Null

\* C13: on a page where initInstallPrompt registered its listeners, a
\* 'beforeinstallprompt' event dispatched in any reachable state leaves the
\* event's default prevented, the event held as the handle, and one banner
\* in the document, of the variant with the Install button; and the handle
\* held is always one whose default was prevented (SpecPage).
C13_EventShowsInstallVariant ==
  /\ deferredPrompt # Null => deferredPrompt \in prevented
  /\ (listeners > 0 /\ SupportsBeforeInstallPrompt(St(0))) =>
       LET e == NewHandle(St(0))
           s == DispatchBeforeInstallPrompt(St(0), e, listeners)
       IN /\ e \in s.prevented
          /\ s.deferredPrompt = e
          /\ Len(s.doc) = 1
          /\ s.doc[1].kind = "install"

\* the handle is held and the banner with the Install button is visible
C13_Witness ==
  /\ listeners > 0
  /\ deferredPrompt \in prevented
  /\ Len(doc) = 1
  /\ doc[1].kind = "install"
  /\ doc[1].visible

\* C14: a banner appended by the fallback timer's callback is of the manual
\* instructions variant (SpecPage).
C14_FallbackShowsManual ==
  [][(Fallbacks(timers') < Fallbacks(timers) /\ Len(doc') > Len(doc)) =>
       doc'[Len(doc')].kind = "manual"]_vars

\* C16: a banner on which hideInstallBanner() was called is not visible
\* from then until its removal, also while a show callback is pending; the
\* call makes the banner not visible at once and schedules its removal; and
\* with no banner in the document the call changes nothing (Spec).
C16_HiddenStaysHidden ==
  /\ \A i \in 1..Len(doc) : Hiding(doc[i].nid) => ~doc[i].visible
  /\ Len(doc) > 0 =>
       LET s == hideInstallBanner(St(0)) IN
       /\ ~s.doc[1].visible
       /\ \E i \in 1..Len(s.timers) :
            s.timers[i] = [kind |-> "hide", nid |-> doc[1].nid]
  /\ Len(doc) = 0 => hideInstallBanner(St(0)) = St(0)

\* C19: whenever a banner with the Install button is in the document and
\* hideInstallBanner has not been called on it, a handle is held (SpecPage).
C19_InstallBannerHasHandle ==
  \A i \in 1..Len(doc) :
    (doc[i].kind = "install" /\ ~Hiding(doc[i].nid)) => deferredPrompt # Null

====
